---- MODULE Spec2Model ----
(***************************************************************************)
(* A model of the abstract problem-solving library: the structural feature *)
(* detector (src/src/core.py), the pattern store with its matching         *)
(* algorithm and its persistence (src/src/store.py).                       *)
(*                                                                         *)
(* Python values are modelled as follows.  A list is a sequence, a set is  *)
(* a set, a dataclass instance is a record with the fields of the class, a *)
(* dict with free keys (a property bag) is a set of <<key, value>> pairs,  *)
(* a decoded JSON object is a record whose domain is its set of keys, and  *)
(* None is the record NoneVal.  An Enum member is the string of its member *)
(* name and its .value is looked up in the table of its class.  A float    *)
(* score or threshold is the rational [n, d] it was computed from; the     *)
(* rationals used here differ by far more than one unit in the last place, *)
(* so comparing them exactly agrees with comparing the rounded floats.     *)
(***************************************************************************)
EXTENDS Integers, Sequences, FiniteSets, TLC

VARIABLES
    store,      \* PatternStore._patterns: insertion-ordered entries [k, v]
    disk,       \* the JSON document at the path that save writes and load reads
    structure,  \* the Structure handed to the feature detector
    last        \* the last call: its name, arguments, state before, outcome

vars == <<store, disk, structure, last>>

\* ---------------------------------------------------------------- bounds

MaxPre == 2
MaxNodes == 2
MaxEdges == 2
MaxFile == 2

\* ------------------------------------------------------------ generalities

NoneVal == [none |-> TRUE]

Range(s) == {s[i] : i \in 1..Len(s)}

SeqsUpTo(S, n) == UNION {[1..k -> S] : k \in 0..n}

\* Python orders strings by code point; the labels of the model in that order.
LabelOrder ==
    <<"bipartite", "cycle", "linear_chain", "recursive_decomposability",
      "tree", "x", "y">>

LabelRank(l) == CHOOSE i \in 1..Len(LabelOrder) : LabelOrder[i] = l

RECURSIVE SortedLabelsFrom(_, _)
SortedLabelsFrom(S, i) ==
    IF i > Len(LabelOrder) THEN <<>>
    ELSE (IF LabelOrder[i] \in S THEN <<LabelOrder[i]>> ELSE <<>>)
         \o SortedLabelsFrom(S, i + 1)

\* a mutant of SortedLabels: the labels in descending order
RECURSIVE SortedLabelsDescFrom(_, _)
SortedLabelsDescFrom(S, i) ==
    IF i < 1 THEN <<>>
    ELSE (IF LabelOrder[i] \in S THEN <<LabelOrder[i]>> ELSE <<>>)
         \o SortedLabelsDescFrom(S, i - 1)

SortedLabelsReversed(S) == SortedLabelsDescFrom(S, Len(LabelOrder))

\* sorted(S) for a set S of labels
SortedLabels(S) == SortedLabelsFrom(S, 1)

\* ------------------------------------------------------------------- enums

ConstraintType ==
    ("INVARIANT" :> "invariant") @@ ("PRECONDITION" :> "precondition")
    @@ ("BOUNDARY" :> "boundary")

GoalType ==
    ("FIND" :> "find") @@ ("TRANSFORM" :> "transform") @@ ("PROVE" :> "prove")
    @@ ("OPTIMIZE" :> "optimize") @@ ("CONSTRUCT" :> "construct")

Operation ==
    ("DECOMPOSE" :> "decompose") @@ ("COMPOSE" :> "compose")
    @@ ("TRANSFORM" :> "transform") @@ ("REDUCE" :> "reduce")
    @@ ("SEARCH" :> "search") @@ ("FIX" :> "fix") @@ ("DUALIZE" :> "dualize")
    @@ ("LIFT" :> "lift") @@ ("PROJECT" :> "project")
    @@ ("CLASSIFY" :> "classify")

CompositionType ==
    ("SEQUENTIAL" :> "sequential") @@ ("PARALLEL" :> "parallel")
    @@ ("CONDITIONAL" :> "conditional") @@ ("ITERATIVE" :> "iterative")

\* member.value
EnumValue(E, member) == E[member]

\* E(value) succeeds iff some member has that value
EnumHas(E, value) == \E m \in DOMAIN E : E[m] = value

\* E(value): the member with that value
EnumOf(E, value) == CHOOSE m \in DOMAIN E : E[m] = value

\* ------------------------------------------------- structural feature detector

Entity(id, type, properties) ==
    [id |-> id, type |-> type, properties |-> properties]

Relation(source, target, type, properties) ==
    [source |-> source, target |-> target, type |-> type,
     properties |-> properties]

Structure(entities, relations) ==
    [entities |-> entities, relations |-> relations]

RECURSIVE CountOfType(_, _)
\* len([r for r in relations if r.type == type])
CountOfType(relations, type) ==
    IF relations = <<>> THEN 0
    ELSE (IF Head(relations).type = type THEN 1 ELSE 0)
         + CountOfType(Tail(relations), type)

EntityTypes(st) == {st.entities[i].type : i \in 1..Len(st.entities)}

CheckRecursive(st) == Len(st.entities) # Cardinality(EntityTypes(st))

CheckLinearChain(st) ==
    CountOfType(st.relations, "ordered_before") = Len(st.entities) - 1

\* a mutant of CheckTree: the relations of every type are counted
CheckTreeAnyType(st) == Len(st.relations) = Len(st.entities) - 1

CheckTree(st) ==
    CountOfType(st.relations, "contains") = Len(st.entities) - 1

\* a mutant of CheckBipartite: two types or more
CheckBipartiteAtLeastTwo(st) == Cardinality(EntityTypes(st)) >= 2

CheckBipartite(st) == Cardinality(EntityTypes(st)) = 2

RECURSIVE TargetsOf(_, _)
\* the list adj[k] after the loop over the relations: the targets of the
\* relations whose source is k, in list order
TargetsOf(rels, k) ==
    IF rels = <<>> THEN <<>>
    ELSE (IF Head(rels).source = k THEN <<Head(rels).target>> ELSE <<>>)
         \o TargetsOf(Tail(rels), k)

\* adj: a key for every listed entity and (setdefault) every relation source
Adjacency(st) ==
    [k \in {st.entities[i].id : i \in 1..Len(st.entities)}
           \cup {st.relations[i].source : i \in 1..Len(st.relations)}
        |-> TargetsOf(st.relations, k)]

\* adj.get(node, [])
AdjGet(adj, node) == IF node \in DOMAIN adj THEN adj[node] ELSE <<>>

DfsInit == [visited |-> {}, in_stack |-> {}, entered |-> <<>>, found |-> FALSE]

RECURSIVE Dfs(_, _, _)
RECURSIVE DfsLoop(_, _, _, _)

\* a mutant of DfsLoop: a node stays in in_stack when its call has returned
DfsLoopKeepStack(adj, node, nbrs, s) ==
    IF nbrs = <<>> THEN [s EXCEPT !.found = FALSE]
    ELSE LET nb == Head(nbrs) IN
         IF nb \in s.in_stack THEN [s EXCEPT !.found = TRUE]
         ELSE IF nb \notin s.visited
              THEN LET r == Dfs(adj, nb, s) IN
                   IF r.found THEN r ELSE DfsLoop(adj, node, Tail(nbrs), r)
              ELSE DfsLoop(adj, node, Tail(nbrs), s)

\* a mutant of DfsLoop: a neighbour is entered again when it was visited
DfsLoopRevisit(adj, node, nbrs, s) ==
    IF nbrs = <<>>
    THEN [s EXCEPT !.in_stack = @ \ {node}, !.found = FALSE]
    ELSE LET nb == Head(nbrs) IN
         IF nb \in s.in_stack THEN [s EXCEPT !.found = TRUE]
         ELSE LET r == Dfs(adj, nb, s) IN
              IF r.found THEN r ELSE DfsLoop(adj, node, Tail(nbrs), r)

\* the for loop of dfs(node) over the neighbours not yet looked at
DfsLoop(adj, node, nbrs, s) ==
    IF nbrs = <<>>
    THEN [s EXCEPT !.in_stack = @ \ {node}, !.found = FALSE]
    ELSE LET nb == Head(nbrs) IN
         IF nb \in s.in_stack THEN [s EXCEPT !.found = TRUE]
         ELSE IF nb \notin s.visited
              THEN LET r == Dfs(adj, nb, s) IN
                   IF r.found THEN r ELSE DfsLoop(adj, node, Tail(nbrs), r)
              ELSE DfsLoop(adj, node, Tail(nbrs), s)

\* dfs(node): the sets visited and in_stack after the call, and its result;
\* entered lists the nodes in the order dfs was called on them
Dfs(adj, node, s) ==
    DfsLoop(adj, node, AdjGet(adj, node),
            [s EXCEPT !.visited = @ \cup {node},
                      !.in_stack = @ \cup {node},
                      !.entered = Append(@, node)])

RECURSIVE CycleRoots(_, _, _)
\* any(dfs(e.id) for e in entities if e.id not in visited)
CycleRoots(adj, ents, s) ==
    IF ents = <<>> THEN [s EXCEPT !.found = FALSE]
    ELSE IF Head(ents).id \in s.visited THEN CycleRoots(adj, Tail(ents), s)
         ELSE LET r == Dfs(adj, Head(ents).id, s) IN
              IF r.found THEN r ELSE CycleRoots(adj, Tail(ents), r)

\* the traversal _check_cycle makes when the relation list is not empty
CycleRun(st) == CycleRoots(Adjacency(st), st.entities, DfsInit)

CheckCycle(st) == IF st.relations = <<>> THEN FALSE ELSE CycleRun(st).found

FeatureNames ==
    <<"recursive_decomposability", "linear_chain", "tree", "cycle", "bipartite">>

HasFeature(st, feature) ==
    CASE feature = "recursive_decomposability" -> CheckRecursive(st)
      [] feature = "linear_chain" -> CheckLinearChain(st)
      [] feature = "tree" -> CheckTree(st)
      [] feature = "cycle" -> CheckCycle(st)
      [] feature = "bipartite" -> CheckBipartite(st)
      [] OTHER -> FALSE

\* Problem.structural_features: the features that hold, in the fixed order
StructuralFeatures(problem) ==
    LET Holds(f) == HasFeature(problem.structure, f)
    IN SelectSeq(FeatureNames, Holds)

\* ---------------------------------------------------------------- data model

Constraint(predicate, over, type) ==
    [predicate |-> predicate, over |-> over, type |-> type]

Goal(type, target, predicate) ==
    [type |-> type, target |-> target, predicate |-> predicate]

Problem(id, name, struct, constraints, goal, tags) ==
    [id |-> id, name |-> name, structure |-> struct,
     constraints |-> constraints, goal |-> goal, tags |-> tags]

Step(operation, args, binds, rationale) ==
    [operation |-> operation, args |-> args, binds |-> binds,
     rationale |-> rationale]

Transformation(steps, composition_type) ==
    [steps |-> steps, composition_type |-> composition_type]

Postcondition(predicate, guarantees) ==
    [predicate |-> predicate, guarantees |-> guarantees]

Solution(id, name, preconditions, transformation, postconditions, metadata) ==
    [id |-> id, name |-> name, preconditions |-> preconditions,
     transformation |-> transformation, postconditions |-> postconditions,
     metadata |-> metadata]

Instantiation(domain, concrete_problem, concrete_solution, mapping_notes) ==
    [domain |-> domain, concrete_problem |-> concrete_problem,
     concrete_solution |-> concrete_solution, mapping_notes |-> mapping_notes]

Pattern(id, name, description, problem, solution, instantiations, related, tags) ==
    [id |-> id, name |-> name, description |-> description,
     problem |-> problem, solution |-> solution,
     instantiations |-> instantiations,
     related_patterns |-> related, tags |-> tags]

\* ------------------------------------------------------------ the store's dict

\* PatternStore.__init__
EmptyStore == <<>>

StoreKeys(s) == {s[i].k : i \in 1..Len(s)}

StoreIndex(s, key) == CHOOSE i \in 1..Len(s) : s[i].k = key

\* list(self._patterns.values())
StoreValues(s) == [i \in 1..Len(s) |-> s[i].v]

\* a mutant of StoreAdd: a known identifier moves to the end of the dict
StoreAddMoveToEnd(s, pattern) ==
    LET Others(e) == e.k # pattern.id
    IN Append(SelectSeq(s, Others), [k |-> pattern.id, v |-> pattern])

\* a mutant of StoreAdd: every add appends an entry, also for a known identifier
StoreAddAppend(s, pattern) == Append(s, [k |-> pattern.id, v |-> pattern])

\* self._patterns[pattern.id] = pattern: a known key keeps its position
StoreAdd(s, pattern) ==
    IF pattern.id \in StoreKeys(s)
    THEN [s EXCEPT ![StoreIndex(s, pattern.id)].v = pattern]
    ELSE Append(s, [k |-> pattern.id, v |-> pattern])

\* self._patterns.get(pattern_id)
StoreGet(s, pattern_id) ==
    IF pattern_id \in StoreKeys(s) THEN s[StoreIndex(s, pattern_id)].v
    ELSE NoneVal

\* a mutant of StoreRemove: reports the removal and keeps the entry
StoreRemoveKeep(s, pattern_id) ==
    [store |-> s, ret |-> StoreGet(s, pattern_id) # NoneVal]

\* self._patterns.pop(pattern_id, None) is not None: the dict afterwards and
\* the value returned
StoreRemove(s, pattern_id) ==
    LET popped == StoreGet(s, pattern_id)
        Keep(e) == e.k # pattern_id
    IN [store |-> SelectSeq(s, Keep), ret |-> popped # NoneVal]

\* ------------------------------------------------------------------- matching

Rat(n, d) == [n |-> n, d |-> d]

\* a >= b and a == b for floats a, b given as rationals with d > 0
RatGeq(a, b) == a.n * b.d >= b.n * a.d
RatEq(a, b) == a.n * b.d = b.n * a.d

\* the literal 0.1
BypassScore == Rat(1, 10)

MatchResult(pattern, score, matched_features, unmatched_preconditions) ==
    [pattern |-> pattern, score |-> score,
     matched_features |-> matched_features,
     unmatched_preconditions |-> unmatched_preconditions]

\* MatchResult.is_exact
IsExact(r) == RatEq(r.score, Rat(1, 1))

\* set(problem.structural_features) updated with problem.tags
ProblemFeatures(problem) ==
    Range(StructuralFeatures(problem)) \cup Range(problem.tags)

\* a mutant of Score: divides by the length of the precondition list
ScoreByListLength(matched, pattern) ==
    Rat(Cardinality(matched), Len(pattern.solution.preconditions))

\* len(matched) / len(required)
Score(matched, pattern) ==
    Rat(Cardinality(matched), Cardinality(Range(pattern.solution.preconditions)))

\* a mutant of MatchPattern: the threshold filters the bypass result too
MatchPatternFilterBypass(pattern, features, threshold) ==
    LET required == Range(pattern.solution.preconditions)
        matched == required \cap features
        score == IF required = {} THEN BypassScore ELSE Score(matched, pattern)
    IN IF RatGeq(score, threshold)
       THEN <<MatchResult(pattern, score, SortedLabels(matched),
                          SortedLabels(required \ features))>>
       ELSE <<>>

\* a mutant of MatchPattern: the bypass result carries score 0
MatchPatternBypassZero(pattern, features, threshold) ==
    LET required == Range(pattern.solution.preconditions)
        matched == required \cap features
    IN IF required = {}
       THEN <<MatchResult(pattern, Rat(0, 1), <<>>, <<>>)>>
       ELSE IF RatGeq(Score(matched, pattern), threshold)
            THEN <<MatchResult(pattern, Score(matched, pattern),
                               SortedLabels(matched),
                               SortedLabels(required \ features))>>
            ELSE <<>>

\* one pass of the loop body of match: the results appended for this pattern
MatchPattern(pattern, features, threshold) ==
    LET required == Range(pattern.solution.preconditions)
        matched == required \cap features
        unmatched == required \ features
    IN IF required = {}
       THEN <<MatchResult(pattern, BypassScore, <<>>, <<>>)>>
       ELSE IF RatGeq(Score(matched, pattern), threshold)
            THEN <<MatchResult(pattern, Score(matched, pattern),
                               SortedLabels(matched), SortedLabels(unmatched))>>
            ELSE <<>>

RECURSIVE MatchLoop(_, _, _)
\* for pattern in self._patterns.values(): ...
MatchLoop(patterns, features, threshold) ==
    IF patterns = <<>> THEN <<>>
    ELSE MatchPattern(Head(patterns), features, threshold)
         \o MatchLoop(Tail(patterns), features, threshold)

RECURSIVE InsertByScore(_, _)
\* r placed after every result of sorted whose score is >= its own
InsertByScore(sorted, r) ==
    IF sorted = <<>> THEN <<r>>
    ELSE IF RatGeq(Head(sorted).score, r.score)
         THEN <<Head(sorted)>> \o InsertByScore(Tail(sorted), r)
         ELSE <<r>> \o sorted

RECURSIVE SortFrom(_, _)
SortFrom(sorted, rest) ==
    IF rest = <<>> THEN sorted
    ELSE SortFrom(InsertByScore(sorted, Head(rest)), Tail(rest))

\* a mutant of SortByScore: the results stay in the store's iteration order
SortByScoreOmitted(results) == results

\* results.sort(key=lambda r: r.score, reverse=True): stable, descending
SortByScore(results) == SortFrom(<<>>, results)

\* a mutant of ProblemAfterMatch: the features are added to the problem's tags
ProblemAfterMatchTagsUpdated(problem) ==
    [problem EXCEPT !.tags = @ \o StructuralFeatures(problem)]

\* the problem object after match: problem_features is a new set, and the
\* update with the tags writes to that set; no field of the problem is assigned
ProblemAfterMatch(problem) == problem

\* PatternStore.match
StoreMatch(s, problem, threshold) ==
    SortByScore(MatchLoop(StoreValues(s), ProblemFeatures(problem), threshold))

\* --------------------------------------------------------- inputs of the store

PatternIds == {"a", "b"}

PreLabels == {"cycle", "tree", "x"}

EmptyStructure == Structure(<<>>, <<>>)

\* a pattern that is all defaults but its identifier and its preconditions
MkPattern(id, preconditions) ==
    Pattern(id, "name", "description",
            Problem("prob", "problem", EmptyStructure, <<>>, NoneVal, <<>>),
            Solution("sol", "solution", preconditions,
                     Transformation(<<>>, "SEQUENTIAL"), <<>>, {}),
            <<>>, <<>>, <<>>)

MatchPatterns ==
    {MkPattern(id, pre) : id \in PatternIds, pre \in SeqsUpTo(PreLabels, MaxPre)}

\* structures with the feature sets {}, {linear_chain, tree},
\* {recursive_decomposability, cycle} and {tree, bipartite}
MatchStructures ==
    {EmptyStructure,
     Structure(<<Entity("n1", "t1", {})>>, <<>>),
     Structure(<<Entity("n1", "t1", {}), Entity("n2", "t1", {})>>,
               <<Relation("n1", "n2", "depends_on", {}),
                 Relation("n2", "n1", "depends_on", {})>>),
     Structure(<<Entity("n1", "t1", {}), Entity("n2", "t2", {})>>,
               <<Relation("n1", "n2", "contains", {})>>)}

MatchTags == {<<>>, <<"x">>, <<"tree", "x">>}

MatchProblems ==
    {Problem("q", "query", st, <<>>, NoneVal, tags) :
        st \in MatchStructures, tags \in MatchTags}

\* 0, 0.1, 0.3, 0.5 (the default), 0.6 and 1.0
Thresholds == {Rat(0, 1), Rat(1, 10), Rat(3, 10), Rat(1, 2), Rat(3, 5), Rat(1, 1)}

\* -------------------------------------------------------------- store actions

\* The store has a single, synchronous caller: a call is made when no call is
\* in progress, and last holds the call and its outcome until it returns.
Idle == [op |-> "idle"]

Add(pattern) ==
    /\ last = Idle
    /\ store' = StoreAdd(store, pattern)
    /\ last' = [op |-> "add", pattern |-> pattern, before |-> store]
    /\ UNCHANGED <<disk, structure>>

Get(pattern_id) ==
    /\ last = Idle
    /\ last' = [op |-> "get", id |-> pattern_id, before |-> store,
                ret |-> StoreGet(store, pattern_id)]
    /\ UNCHANGED <<store, disk, structure>>

Remove(pattern_id) ==
    /\ last = Idle
    /\ store' = StoreRemove(store, pattern_id).store
    /\ last' = [op |-> "remove", id |-> pattern_id, before |-> store,
                ret |-> StoreRemove(store, pattern_id).ret]
    /\ UNCHANGED <<disk, structure>>

AllPatterns ==
    /\ last = Idle
    /\ last' = [op |-> "all_patterns", before |-> store,
                ret |-> StoreValues(store)]
    /\ UNCHANGED <<store, disk, structure>>

Match(problem, threshold) ==
    /\ last = Idle
    /\ last' = [op |-> "match", problem |-> problem, threshold |-> threshold,
                before |-> store, ret |-> StoreMatch(store, problem, threshold),
                problem_after |-> ProblemAfterMatch(problem)]
    /\ UNCHANGED <<store, disk, structure>>

\* the call returns to the caller
Return ==
    /\ last # Idle
    /\ last' = Idle
    /\ UNCHANGED <<store, disk, structure>>

AddMatchPattern == \E p \in MatchPatterns : Add(p)
GetAny == \E id \in PatternIds : Get(id)
RemoveAny == \E id \in PatternIds : Remove(id)
MatchAny == \E q \in MatchProblems, t \in Thresholds : Match(q, t)

NoFile == [exists |-> FALSE, data |-> <<>>]

Init ==
    /\ store = EmptyStore
    /\ disk = NoFile
    /\ structure = EmptyStructure
    /\ last = Idle

Next ==
    AddMatchPattern \/ GetAny \/ RemoveAny \/ AllPatterns \/ MatchAny \/ Return

Spec == Init /\ [][Next]_vars

\* ---------------------------------------------------------------- persistence

\* Optional[str]: a string value that is not None
Some(v) == [some |-> v]

Has(d, key) == key \in DOMAIN d

EntityToDict(e) == [id |-> e.id, type |-> e.type, properties |-> e.properties]

RelationToDict(r) ==
    [source |-> r.source, target |-> r.target, type |-> r.type,
     properties |-> r.properties]

ConstraintToDict(c) ==
    [predicate |-> c.predicate, over |-> c.over,
     type |-> EnumValue(ConstraintType, c.type)]

GoalToDict(g) ==
    IF g # NoneVal
    THEN [type |-> EnumValue(GoalType, g.type), target |-> g.target,
          predicate |-> g.predicate]
    ELSE NoneVal

StepToDict(st) ==
    [operation |-> EnumValue(Operation, st.operation), args |-> st.args,
     binds |-> st.binds, rationale |-> st.rationale]

PostconditionToDict(pc) ==
    [predicate |-> pc.predicate, guarantees |-> pc.guarantees]

InstantiationToDict(i) ==
    [domain |-> i.domain, concrete_problem |-> i.concrete_problem,
     concrete_solution |-> i.concrete_solution,
     mapping_notes |-> i.mapping_notes]

ProblemToDict(q) ==
    [id |-> q.id, name |-> q.name,
     structure |->
        [entities |-> [i \in 1..Len(q.structure.entities) |->
                            EntityToDict(q.structure.entities[i])],
         relations |-> [i \in 1..Len(q.structure.relations) |->
                            RelationToDict(q.structure.relations[i])]],
     constraints |-> [i \in 1..Len(q.constraints) |->
                            ConstraintToDict(q.constraints[i])],
     goal |-> GoalToDict(q.goal),
     tags |-> q.tags]

SolutionToDict(sol) ==
    [id |-> sol.id, name |-> sol.name, preconditions |-> sol.preconditions,
     transformation |->
        [steps |-> [i \in 1..Len(sol.transformation.steps) |->
                        StepToDict(sol.transformation.steps[i])],
         composition_type |->
            EnumValue(CompositionType, sol.transformation.composition_type)],
     postconditions |-> [i \in 1..Len(sol.postconditions) |->
                            PostconditionToDict(sol.postconditions[i])]]

\* _pattern_to_dict
PatternToDict(pattern) ==
    [id |-> pattern.id, name |-> pattern.name,
     description |-> pattern.description,
     problem |-> ProblemToDict(pattern.problem),
     solution |-> SolutionToDict(pattern.solution),
     instantiations |-> [i \in 1..Len(pattern.instantiations) |->
                            InstantiationToDict(pattern.instantiations[i])],
     related_patterns |-> pattern.related_patterns,
     tags |-> pattern.tags]

\* d.get(key, default)
GetOr(d, key, default) == IF Has(d, key) THEN d[key] ELSE default

\* Entity(**e) raises no TypeError: the required fields and no unknown one
EntityDictOk(e) ==
    /\ {"id", "type"} \subseteq DOMAIN e
    /\ DOMAIN e \subseteq {"id", "type", "properties"}

RelationDictOk(r) ==
    /\ {"source", "target", "type"} \subseteq DOMAIN r
    /\ DOMAIN r \subseteq {"source", "target", "type", "properties"}

ConstraintDictOk(c) ==
    /\ {"predicate", "over", "type"} \subseteq DOMAIN c
    /\ EnumHas(ConstraintType, c.type)

\* prob_d.get("goal") is falsy, or Goal(...) can be built from it
GoalDictOk(q) ==
    \/ GetOr(q, "goal", NoneVal) = NoneVal
    \/ /\ {"type", "target", "predicate"} \subseteq DOMAIN q.goal
       /\ EnumHas(GoalType, q.goal.type)

ProblemDictOk(q) ==
    /\ Has(q, "structure")
    /\ Has(q.structure, "entities")
    /\ \A i \in 1..Len(q.structure.entities) :
            EntityDictOk(q.structure.entities[i])
    /\ Has(q.structure, "relations")
    /\ \A i \in 1..Len(q.structure.relations) :
            RelationDictOk(q.structure.relations[i])
    /\ \A i \in 1..Len(GetOr(q, "constraints", <<>>)) :
            ConstraintDictOk(q.constraints[i])
    /\ GoalDictOk(q)
    /\ {"id", "name"} \subseteq DOMAIN q

StepDictOk(st) == Has(st, "operation") /\ EnumHas(Operation, st.operation)

SolutionDictOk(sol) ==
    /\ Has(sol, "transformation")
    /\ Has(sol.transformation, "steps")
    /\ \A i \in 1..Len(sol.transformation.steps) :
            StepDictOk(sol.transformation.steps[i])
    /\ EnumHas(CompositionType,
               GetOr(sol.transformation, "composition_type", "sequential"))
    /\ \A i \in 1..Len(GetOr(sol, "postconditions", <<>>)) :
            {"predicate", "guarantees"} \subseteq DOMAIN sol.postconditions[i]
    /\ {"id", "name"} \subseteq DOMAIN sol

InstantiationDictOk(i) ==
    /\ {"domain", "concrete_problem", "concrete_solution"} \subseteq DOMAIN i
    /\ DOMAIN i \subseteq
        {"domain", "concrete_problem", "concrete_solution", "mapping_notes"}

\* _dict_to_pattern(d) returns: no KeyError, ValueError or TypeError is raised
DictOk(d) ==
    /\ Has(d, "problem")
    /\ ProblemDictOk(d.problem)
    /\ Has(d, "solution")
    /\ SolutionDictOk(d.solution)
    /\ \A i \in 1..Len(GetOr(d, "instantiations", <<>>)) :
            InstantiationDictOk(d.instantiations[i])
    /\ {"id", "name", "description"} \subseteq DOMAIN d

EntityFromDict(e) == Entity(e.id, e.type, GetOr(e, "properties", {}))

RelationFromDict(r) ==
    Relation(r.source, r.target, r.type, GetOr(r, "properties", {}))

ConstraintFromDict(c) ==
    Constraint(c.predicate, c.over, EnumOf(ConstraintType, c.type))

GoalFromDict(q) ==
    IF GetOr(q, "goal", NoneVal) = NoneVal THEN NoneVal
    ELSE Goal(EnumOf(GoalType, q.goal.type), q.goal.target, q.goal.predicate)

StepFromDict(st) ==
    Step(EnumOf(Operation, st.operation), GetOr(st, "args", {}),
         GetOr(st, "binds", NoneVal), GetOr(st, "rationale", ""))

InstantiationFromDict(i) ==
    Instantiation(i.domain, i.concrete_problem, i.concrete_solution,
                  GetOr(i, "mapping_notes", ""))

ProblemFromDict(q) ==
    Problem(q.id, q.name,
            Structure([i \in 1..Len(q.structure.entities) |->
                            EntityFromDict(q.structure.entities[i])],
                      [i \in 1..Len(q.structure.relations) |->
                            RelationFromDict(q.structure.relations[i])]),
            [i \in 1..Len(GetOr(q, "constraints", <<>>)) |->
                    ConstraintFromDict(q.constraints[i])],
            GoalFromDict(q),
            GetOr(q, "tags", <<>>))

\* the Solution is built without metadata, which takes its default {}
SolutionFromDict(sol) ==
    Solution(sol.id, sol.name, GetOr(sol, "preconditions", <<>>),
             Transformation(
                [i \in 1..Len(sol.transformation.steps) |->
                        StepFromDict(sol.transformation.steps[i])],
                EnumOf(CompositionType,
                       GetOr(sol.transformation, "composition_type",
                             "sequential"))),
             [i \in 1..Len(GetOr(sol, "postconditions", <<>>)) |->
                    Postcondition(sol.postconditions[i].predicate,
                                  sol.postconditions[i].guarantees)],
             {})

\* _dict_to_pattern, where it returns
DictToPattern(d) ==
    Pattern(d.id, d.name, d.description,
            ProblemFromDict(d.problem), SolutionFromDict(d.solution),
            [i \in 1..Len(GetOr(d, "instantiations", <<>>)) |->
                    InstantiationFromDict(d.instantiations[i])],
            GetOr(d, "related_patterns", <<>>),
            GetOr(d, "tags", <<>>))

\* the data list of save
SaveData(s) == [i \in 1..Len(s) |-> PatternToDict(s[i].v)]

RECURSIVE LoadLoop(_, _)
\* the for loop of load over the items left: every item is decoded and
\* inserted at once; the first item that cannot be decoded raises, and the
\* items before it stay inserted
\* a mutant of LoadLoop: every record is appended as a new entry
LoadLoopAppend(s, items) ==
    IF items = <<>> THEN [store |-> s, raised |-> FALSE]
    ELSE IF ~DictOk(Head(items)) THEN [store |-> s, raised |-> TRUE]
         ELSE LoadLoop(StoreAddAppend(s, DictToPattern(Head(items))), Tail(items))

\* a mutant of LoadLoop: a record whose id is already stored is skipped
LoadLoopKeepStored(s, items) ==
    IF items = <<>> THEN [store |-> s, raised |-> FALSE]
    ELSE IF ~DictOk(Head(items)) THEN [store |-> s, raised |-> TRUE]
         ELSE IF Head(items).id \in StoreKeys(s)
              THEN LoadLoop(s, Tail(items))
              ELSE LoadLoop(StoreAdd(s, DictToPattern(Head(items))), Tail(items))

LoadLoop(s, items) ==
    IF items = <<>> THEN [store |-> s, raised |-> FALSE]
    ELSE IF ~DictOk(Head(items)) THEN [store |-> s, raised |-> TRUE]
         ELSE LoadLoop(StoreAdd(s, DictToPattern(Head(items))), Tail(items))

\* PatternStore.load of the file f into the store s
StoreLoad(s, f) ==
    IF ~f.exists THEN [store |-> s, raised |-> TRUE]
    ELSE LoadLoop(s, f.data)

\* ------------------------------------------------------ inputs of persistence

\* a pattern with a value other than the default in every field that is saved
FullPattern ==
    Pattern("b", "Divide and Conquer", "split, solve, merge",
            Problem("prob-b", "decomposable",
                    Structure(<<Entity("n1", "t1", {<<"size", "n">>}),
                                Entity("n2", "t1", {})>>,
                              <<Relation("n1", "n2", "contains",
                                         {<<"weight", "1">>})>>),
                    <<Constraint("parts cover whole", <<"n1", "n2">>, "BOUNDARY")>>,
                    Goal("OPTIMIZE", "n1", "solved"),
                    <<"x">>),
            Solution("sol-b", "divide", <<"tree", "x">>,
                     Transformation(
                        <<Step("DECOMPOSE", {<<"predicate", "split">>},
                               Some("parts"), "break up"),
                          Step("FIX", {}, NoneVal, "")>>,
                        "ITERATIVE"),
                     <<Postcondition("solved", "whole is solved")>>,
                     {}),
            <<Instantiation("algorithms", "sorting", "merge sort", "notes")>>,
            <<"a">>, <<"x", "y">>)

\* a pattern whose solution carries metadata
MetadataPattern ==
    [MkPattern("a", <<"x">>) EXCEPT !.solution.metadata = {<<"source", "book">>}]

PersistPatterns == {MkPattern("a", <<>>), FullPattern, MetadataPattern}

\* a record with the required fields only
SparseDict ==
    [id |-> "b", name |-> "sparse", description |-> "required fields only",
     problem |-> [id |-> "prob", name |-> "problem",
                  structure |-> [entities |-> <<[id |-> "n1", type |-> "t1"]>>,
                                 relations |-> <<>>]],
     solution |-> [id |-> "sol", name |-> "solution",
                   transformation |-> [steps |-> <<[operation |-> "search"]>>]]]

\* a record without its description: KeyError
MissingFieldDict ==
    [id |-> "b", name |-> "no description",
     problem |-> SparseDict.problem, solution |-> SparseDict.solution]

\* a record with a step whose operation is no member of Operation: ValueError
UnknownEnumDict ==
    [SparseDict EXCEPT
        !.solution.transformation.steps = <<[operation |-> "explode"]>>]

\* a record with an entity that has a field Entity does not have: TypeError
MalformedEntityDict ==
    [SparseDict EXCEPT
        !.problem.structure.entities =
            <<[id |-> "n1", type |-> "t1", colour |-> "red"]>>]

DictPool ==
    {PatternToDict(FullPattern), PatternToDict(MkPattern("a", <<"tree">>)),
     SparseDict, MissingFieldDict, UnknownEnumDict, MalformedEntityDict}

FileContents == SeqsUpTo(DictPool, MaxFile)

\* -------------------------------------------------------- persistence actions

Save ==
    /\ last = Idle
    /\ disk' = [exists |-> TRUE, data |-> SaveData(store)]
    /\ last' = [op |-> "save", before |-> store]
    /\ UNCHANGED <<store, structure>>

Load ==
    /\ last = Idle
    /\ store' = StoreLoad(store, disk).store
    /\ last' = [op |-> "load", before |-> store,
                raised |-> StoreLoad(store, disk).raised]
    /\ UNCHANGED <<disk, structure>>

\* store2 = PatternStore(); store2.load(path)
LoadFresh ==
    /\ last = Idle
    /\ last' = [op |-> "load_fresh", before |-> store,
                raised |-> StoreLoad(EmptyStore, disk).raised,
                ret |-> StoreLoad(EmptyStore, disk).store]
    /\ UNCHANGED <<store, disk, structure>>

\* the file at the path is written by something other than save
WriteFile ==
    /\ last = Idle
    /\ \E data \in FileContents : disk' = [exists |-> TRUE, data |-> data]
    /\ last' = [op |-> "write_file"]
    /\ UNCHANGED <<store, structure>>

AddPersistPattern == \E p \in PersistPatterns : Add(p)

NextPersist ==
    \/ AddPersistPattern
    \/ RemoveAny
    \/ Save
    \/ Load
    \/ LoadFresh
    \/ WriteFile
    \/ Return

SpecPersist == Init /\ [][NextPersist]_vars

\* ------------------------------------------------- feature detector as called

\* identifiers of the listed entities; edges may also name AbsentId
ListedIds == {"n1", "n2"}
AbsentId == "n3"
EntityTypeLabels == {"t1", "t2"}
RelationTypeLabels == {"contains", "ordered_before"}

\* entity lists up to MaxNodes long, identifiers unique within the list
EntityLists ==
    {es \in SeqsUpTo({Entity(id, t, {}) : id \in ListedIds, t \in EntityTypeLabels}, MaxNodes) : \A i, j \in 1..Len(es) : es[i].id = es[j].id => i = j}

\* relation lists up to MaxEdges long: self-loops, parallel edges and edges
\* from and to identifiers that are not listed are all allowed
RelationLists ==
    SeqsUpTo({Relation(a, b, t, {}) : a \in ListedIds \cup {AbsentId}, b \in ListedIds \cup {AbsentId}, t \in RelationTypeLabels}, MaxEdges)

Structures == {Structure(es, rs) : es \in EntityLists, rs \in RelationLists}

InitFeatures ==
    /\ store = EmptyStore
    /\ disk = NoFile
    /\ structure \in Structures
    /\ last = Idle

\* structure.has_feature(feature), also for a name that is no feature
HasFeatureCall ==
    /\ last = Idle
    /\ \E f \in Range(FeatureNames) \cup {"x"} :
        last' = [op |-> "has_feature", feature |-> f,
                 ret |-> HasFeature(structure, f)]
    /\ UNCHANGED <<store, disk, structure>>

NextFeatures == HasFeatureCall \/ Return

SpecFeatures == InitFeatures /\ [][NextFeatures]_vars

\* -------------------------------------------------------------------- searches

\* a mutant of SearchByTag: a pattern with any one of the tags is returned
SearchByTagAny(s, tags) ==
    LET HasOne(p) == tags = <<>> \/ Range(tags) \cap Range(p.tags) # {}
    IN SelectSeq(StoreValues(s), HasOne)

\* set(tags).issubset(set(p.tags)) for the patterns in iteration order
SearchByTag(s, tags) ==
    LET HasAll(p) == Range(tags) \subseteq Range(p.tags)
    IN SelectSeq(StoreValues(s), HasAll)

\* Pattern.domains_covered
DomainsCovered(pattern) ==
    {pattern.instantiations[i].domain : i \in 1..Len(pattern.instantiations)}

\* a mutant of SearchByDomain: only the first instantiation is looked at
SearchByDomainFirst(s, domain) ==
    LET First(p) == p.instantiations # <<>> /\ p.instantiations[1].domain = domain
    IN SelectSeq(StoreValues(s), First)

\* [p for p in self._patterns.values() if domain in p.domains_covered]
SearchByDomain(s, domain) ==
    LET Covers(p) == domain \in DomainsCovered(p)
    IN SelectSeq(StoreValues(s), Covers)

\* pattern.add_instantiation(inst) on the pattern object stored under
\* pattern_id: the store holds the object itself, so it sees the append
StoreAddInstantiation(s, pattern_id, inst) ==
    [s EXCEPT ![StoreIndex(s, pattern_id)].v.instantiations = Append(@, inst)]

MaxInst == 2
MaxTags == 2

TagLabels == {"x", "y"}
DomainNames == {"algorithms", "management"}

\* the tag lists of the stored patterns
PatternTagLists == {<<>>, <<"x">>, <<"y", "x">>, <<"y", "y">>}

MkInstantiation(domain) == Instantiation(domain, "problem", "solution", "")

MkSearchPattern(id, tags, domains) ==
    [MkPattern(id, <<"x">>) EXCEPT
        !.tags = tags,
        !.instantiations = [i \in 1..Len(domains) |-> MkInstantiation(domains[i])]]

SearchPatterns ==
    {MkSearchPattern(id, tags, domains) : id \in PatternIds, tags \in PatternTagLists, domains \in SeqsUpTo(DomainNames, 1)}

SearchByTagCall ==
    /\ last = Idle
    /\ \E tags \in SeqsUpTo(TagLabels, MaxTags) :
        last' = [op |-> "search_by_tag", tags |-> tags, before |-> store,
                 ret |-> SearchByTag(store, tags)]
    /\ UNCHANGED <<store, disk, structure>>

SearchByDomainCall ==
    /\ last = Idle
    /\ \E domain \in DomainNames \cup {"physics"} :
        last' = [op |-> "search_by_domain", domain |-> domain, before |-> store,
                 ret |-> SearchByDomain(store, domain)]
    /\ UNCHANGED <<store, disk, structure>>

\* the caller appends an instantiation to a pattern it has added to the store
AddInstantiation ==
    /\ last = Idle
    /\ \E id \in StoreKeys(store), domain \in DomainNames :
        /\ Len(StoreGet(store, id).instantiations) < MaxInst
        /\ store' = StoreAddInstantiation(store, id, MkInstantiation(domain))
        /\ last' = [op |-> "add_instantiation", id |-> id, domain |-> domain,
                    before |-> store]
    /\ UNCHANGED <<disk, structure>>

AddSearchPattern == \E p \in SearchPatterns : Add(p)

\* match with the default threshold, 0.5
MatchDefault == \E q \in MatchProblems : Match(q, Rat(1, 2))

NextSearch ==
    \/ AddSearchPattern
    \/ AddInstantiation
    \/ RemoveAny
    \/ GetAny
    \/ AllPatterns
    \/ MatchDefault
    \/ SearchByTagCall
    \/ SearchByDomainCall
    \/ Return

SpecSearch == Init /\ [][NextSearch]_vars

\* ----------------------------------------------- type features as called

MaxTypedNodes == 4
MaxTypedEdges == 1
TypedIds == <<"n1", "n2", "n3", "n4", "n5">>
TypeLabels == {"t1", "t2", "t3"}

\* entity lists up to MaxTypedNodes long, the identifier given by the place
TypedEntityLists ==
    {[i \in 1..Len(ts) |-> Entity(TypedIds[i], ts[i], {})] : ts \in SeqsUpTo(TypeLabels, MaxTypedNodes)}

TypedRelationLists ==
    SeqsUpTo({Relation(a, b, t, {}) : a \in {"n1", "n2"}, b \in {"n1", "n2"}, t \in RelationTypeLabels}, MaxTypedEdges)

TypedStructures ==
    {Structure(es, rs) : es \in TypedEntityLists, rs \in TypedRelationLists}

InitTypes ==
    /\ store = EmptyStore
    /\ disk = NoFile
    /\ structure \in TypedStructures
    /\ last = Idle

SpecTypes == InitTypes /\ [][NextFeatures]_vars

\* --------------------------------------------------------- domain mappings

DomainMapping(domain, type_map, operation_map, axioms) ==
    [domain |-> domain, type_map |-> type_map,
     operation_map |-> operation_map, axioms |-> axioms]

\* a dict of strings in insertion order: a sequence of entries [k, v]
DictKeys(d) == {d[i].k : i \in 1..Len(d)}

\* d.get(key, default)
DictGet(d, key, default) ==
    IF key \in DictKeys(d)
    THEN d[CHOOSE i \in 1..Len(d) : d[i].k = key].v
    ELSE default

\* d[key] = value: a known key keeps its place and takes the value
DictSet(d, key, value) ==
    IF key \in DictKeys(d)
    THEN [d EXCEPT ![CHOOSE i \in 1..Len(d) : d[i].k = key].v = value]
    ELSE Append(d, [k |-> key, v |-> value])

RECURSIVE InvertFrom(_, _)
\* the comprehension {v: k for k, v in items}, items taken in order
InvertFrom(items, acc) ==
    IF items = <<>> THEN acc
    ELSE InvertFrom(Tail(items), DictSet(acc, Head(items).v, Head(items).k))

RECURSIVE InvertKeepFrom(_, _)
InvertKeepFrom(items, acc) ==
    IF items = <<>> THEN acc
    ELSE InvertKeepFrom(Tail(items),
                        IF Head(items).v \in DictKeys(acc) THEN acc
                        ELSE DictSet(acc, Head(items).v, Head(items).k))

\* a mutant of InverseOperationMap: the first concrete label of an abstract
\* label is kept
InverseOperationMapFirst(mapping) == InvertKeepFrom(mapping.operation_map, <<>>)

\* DomainMapping.inverse_operation_map
InverseOperationMap(mapping) == InvertFrom(mapping.operation_map, <<>>)

\* the dict appended to concrete_steps for one step
ConcreteStep(step, ops, domain) ==
    [operation |-> DictGet(ops, EnumValue(Operation, step.operation),
                           EnumValue(Operation, step.operation)),
     abstract_operation |-> EnumValue(Operation, step.operation),
     args |-> step.args,
     binds |-> step.binds,
     rationale |-> step.rationale,
     domain |-> domain]

\* a mutant of Instantiate: the label is looked up in operation_map itself
InstantiateForward(solution, mapping) ==
    [i \in 1..Len(solution.transformation.steps) |->
        ConcreteStep(solution.transformation.steps[i], mapping.operation_map,
                     mapping.domain)]

\* instantiate(solution, mapping)
Instantiate(solution, mapping) ==
    LET inv_ops == InverseOperationMap(mapping)
    IN [i \in 1..Len(solution.transformation.steps) |->
            ConcreteStep(solution.transformation.steps[i], inv_ops,
                         mapping.domain)]

MaxMap == 2
MaxSteps == 2
ConcreteLabels == {"split", "merge", "halve"}
AbstractLabels == {"decompose", "compose", "custom"}

\* operation maps of up to MaxMap entries; a dict has each key once
OperationMaps ==
    {m \in SeqsUpTo([k : ConcreteLabels, v : AbstractLabels], MaxMap) : \A i, j \in 1..Len(m) : m[i].k = m[j].k => i = j}

Mappings == {DomainMapping("algorithms", <<>>, m, {}) : m \in OperationMaps}

StepPool ==
    {Step("DECOMPOSE", {<<"into", "halves">>}, Some("parts"), "split the input"),
     Step("COMPOSE", {}, NoneVal, ""),
     Step("SEARCH", {<<"space", "candidates">>}, Some("hit"), "")}

MappingSolutions ==
    {Solution("sol", "solution", <<>>, Transformation(steps, "SEQUENTIAL"), <<>>, {}) : steps \in SeqsUpTo(StepPool, MaxSteps)}

InstantiateCall ==
    /\ last = Idle
    /\ \E solution \in MappingSolutions, mapping \in Mappings :
        last' = [op |-> "instantiate", solution |-> solution,
                 mapping |-> mapping, ret |-> Instantiate(solution, mapping)]
    /\ UNCHANGED <<store, disk, structure>>

InverseOperationMapCall ==
    /\ last = Idle
    /\ \E mapping \in Mappings :
        last' = [op |-> "inverse_operation_map", mapping |-> mapping,
                 ret |-> InverseOperationMap(mapping)]
    /\ UNCHANGED <<store, disk, structure>>

NextMapping == InstantiateCall \/ InverseOperationMapCall \/ Return

SpecMapping == Init /\ [][NextMapping]_vars

\* ------------------------------------------------- Solution.matches as called

\* a mutant of SolutionMatches: the tags of the problem are left out
SolutionMatchesStructureOnly(solution, problem) ==
    Range(solution.preconditions) \subseteq Range(StructuralFeatures(problem))

\* Solution.matches(problem)
SolutionMatches(solution, problem) ==
    Range(solution.preconditions) \subseteq ProblemFeatures(problem)

\* pattern.solution.matches(problem) for a pattern of the store
MatchesCall ==
    /\ last = Idle
    /\ \E id \in StoreKeys(store), q \in MatchProblems :
        last' = [op |-> "matches", pattern |-> StoreGet(store, id),
                 problem |-> q, before |-> store,
                 ret |-> SolutionMatches(StoreGet(store, id).solution, q)]
    /\ UNCHANGED <<store, disk, structure>>

NextExact == AddMatchPattern \/ RemoveAny \/ MatchAny \/ MatchesCall \/ Return

SpecExact == Init /\ [][NextExact]_vars

\* ================================================================== claims

\* the entries of the store a match call ran over, and its results
MatchCall == last.op = "match"
Entries == {last.before[i] : i \in 1..Len(last.before)}
ResultsFor(pattern) == {i \in 1..Len(last.ret) : last.ret[i].pattern = pattern}
HasPreconditions(pattern) == pattern.solution.preconditions # <<>>

\* the feature set of the problem, as the specification states it
FeatureSetOf(problem) ==
    {f \in Range(FeatureNames) : HasFeature(problem.structure, f)}
    \cup {problem.tags[i] : i \in 1..Len(problem.tags)}

StrictlyAscending(labels) ==
    \A i \in 1..Len(labels) - 1 : LabelRank(labels[i]) < LabelRank(labels[i + 1])

\* C1: a stored pattern with a non-empty precondition list is in the result
\* of match exactly once if |required /\ feature_set| / |required| >= threshold
\* and not at all otherwise, where required is the set of its precondition
\* labels and feature_set the problem's structural features and tags; with
\* threshold 0 a pattern of score 0 is included.
C1_IncludedIffScoreReachesThreshold ==
    MatchCall =>
        \A e \in Entries :
            HasPreconditions(e.v) =>
                LET required == Range(e.v.solution.preconditions)
                    hit == required \cap FeatureSetOf(last.problem)
                    reaches == Cardinality(hit) * last.threshold.d
                               >= last.threshold.n * Cardinality(required)
                IN /\ Cardinality(ResultsFor(e.v)) = (IF reaches THEN 1 ELSE 0)
                   /\ \A i \in ResultsFor(e.v) :
                        RatEq(last.ret[i].score,
                              Rat(Cardinality(hit), Cardinality(required)))

\* C1 witness: a match with threshold 0 returned a pattern of score 0 that
\* has preconditions
C1_Witness ==
    /\ MatchCall
    /\ last.threshold = Rat(0, 1)
    /\ \E i \in 1..Len(last.ret) :
        /\ HasPreconditions(last.ret[i].pattern)
        /\ RatEq(last.ret[i].score, Rat(0, 1))

C4_FailedLoadLeavesStore ==
    (last.op = "load" /\ last.raised) => store = last.before

\* C5 as stated: loading what save wrote into a fresh store gives a store
\* with the same identifiers and, under each, a pattern equal in every field
\* of the pattern, its problem and its solution.
C5_SaveLoadRoundTrip ==
    (/\ last.op = "load_fresh"
     /\ disk = [exists |-> TRUE, data |-> SaveData(store)]) =>
        /\ ~last.raised
        /\ last.ret = store

\* the nodes an edge list names, and the nodes reachable from a set of nodes
\* along its edges
EdgeNodes(rels) ==
    {rels[i].source : i \in 1..Len(rels)} \cup {rels[i].target : i \in 1..Len(rels)}
Successors(rels, S) == {rels[i].target : i \in {j \in 1..Len(rels) : rels[j].source \in S}}
RECURSIVE ReachableFrom(_, _)
ReachableFrom(rels, S) ==
    IF Successors(rels, S) \subseteq S THEN S
    ELSE ReachableFrom(rels, S \cup Successors(rels, S))
HasDirectedCycle(rels) ==
    \E v \in EdgeNodes(rels) : v \in ReachableFrom(rels, Successors(rels, {v}))

\* C6 as stated: for every structure, also one whose edges name identifiers
\* that are not listed, the cycle feature is true iff the graph of all edges
\* has a directed cycle (a self-loop is one), and false without edges.
C6_CycleIffDirectedCycle ==
    (last.op = "has_feature" /\ last.feature = "cycle") =>
        /\ last.ret <=> HasDirectedCycle(structure.relations)
        /\ structure.relations = <<>> => ~last.ret

\* C7: after add(p), get(p.id) returns p, the other identifiers keep their
\* patterns, no identifier occurs twice in the store, and the size of the
\* store is unchanged when p.id was present and one more when it was not.
C7_AddLastWriteWins ==
    /\ \A i, j \in 1..Len(store) : store[i].k = store[j].k => i = j
    /\ last.op = "add" =>
        /\ StoreGet(store, last.pattern.id) = last.pattern
        /\ \A id \in PatternIds \ {last.pattern.id} :
            StoreGet(store, id) = StoreGet(last.before, id)
        /\ Len(store) = Len(last.before)
              + (IF last.pattern.id \in StoreKeys(last.before) THEN 0 ELSE 1)

\* C7 witness: an add replaced a different pattern stored under the same
\* identifier, in a store holding another pattern too
C7_Witness ==
    /\ last.op = "add"
    /\ StoreGet(last.before, last.pattern.id) # NoneVal
    /\ StoreGet(last.before, last.pattern.id) # last.pattern
    /\ Len(last.before) = 2

\* C8: remove(id) of an absent identifier returns false and leaves the store
\* as it was; of a present identifier it returns true, the store is one
\* smaller, get(id) is absent afterwards and every other pattern is kept.
C8_RemoveContract ==
    last.op = "remove" =>
        IF last.id \in StoreKeys(last.before)
        THEN /\ last.ret = TRUE
             /\ Len(store) = Len(last.before) - 1
             /\ StoreGet(store, last.id) = NoneVal
             /\ \A id \in PatternIds \ {last.id} :
                    StoreGet(store, id) = StoreGet(last.before, id)
        ELSE /\ last.ret = FALSE
             /\ store = last.before

\* C8 witness: a remove took one of two patterns out of the store
C8_Witness ==
    /\ last.op = "remove"
    /\ last.ret = TRUE
    /\ Len(last.before) = 2
    /\ Len(store) = 1

\* C9: in the list match returns, every result has a score greater than or
\* equal to the score of the result after it.
C9_ResultsByScoreDescending ==
    MatchCall =>
        \A i \in 1..Len(last.ret) - 1 :
            RatGeq(last.ret[i].score, last.ret[i + 1].score)

\* C9 witness: match returned two results of different scores, the first of
\* them for the pattern the store iterates second
C9_Witness ==
    /\ MatchCall
    /\ Len(last.ret) = 2
    /\ Len(last.before) = 2
    /\ last.ret[1].pattern = last.before[2].v
    /\ ~RatEq(last.ret[1].score, last.ret[2].score)

\* C10: a result for a pattern with preconditions has matched and unmatched
\* lists that are ascending without duplicates, disjoint, together the set of
\* the pattern's precondition labels, and unmatched is empty iff score == 1.0.
C10_MatchedUnmatchedPartition ==
    MatchCall =>
        \A i \in 1..Len(last.ret) :
            HasPreconditions(last.ret[i].pattern) =>
                LET r == last.ret[i]
                    m == r.matched_features
                    u == r.unmatched_preconditions
                IN /\ StrictlyAscending(m)
                   /\ StrictlyAscending(u)
                   /\ Range(m) \cap Range(u) = {}
                   /\ Range(m) \cup Range(u)
                        = Range(r.pattern.solution.preconditions)
                   /\ (u = <<>>) <=> IsExact(r)

\* C10 witness: a result whose two matched labels are listed by the pattern
\* in descending order, and a result with an unmatched label
C10_Witness ==
    /\ MatchCall
    /\ \E i \in 1..Len(last.ret) :
        /\ Len(last.ret[i].matched_features) = 2
        /\ last.ret[i].pattern.solution.preconditions = <<"x", "cycle">>
    /\ \E i \in 1..Len(last.ret) : last.ret[i].unmatched_preconditions # <<>>

\* the patterns in the store before the last call
StoredBefore == {last.before[i].v : i \in 1..Len(last.before)}

NoDuplicates(s) == \A i, j \in 1..Len(s) : s[i] = s[j] => i = j

\* C11: search_by_tag(t1..tn) returns, once each, exactly the stored patterns
\* whose tag list contains every ti; without tags it returns every stored
\* pattern.
C11_SearchByTagAllTags ==
    last.op = "search_by_tag" =>
        /\ NoDuplicates(last.ret)
        /\ Range(last.ret) =
            {p \in StoredBefore :
                \A i \in 1..Len(last.tags) :
                    \E j \in 1..Len(p.tags) : p.tags[j] = last.tags[i]}
        /\ last.tags = <<>> => Range(last.ret) = StoredBefore

\* C11 witness: a search for two different tags returned one of two stored
\* patterns, the other having only one of the tags
C11_Witness ==
    /\ last.op = "search_by_tag"
    /\ Cardinality(Range(last.tags)) = 2
    /\ Len(last.ret) = 1
    /\ \E p \in StoredBefore \ Range(last.ret) : Range(p.tags) \cap Range(last.tags) # {}

\* C12: search_by_domain(d) returns, once each, exactly the stored patterns
\* with an instantiation whose domain is d, also when the instantiation was
\* appended with add_instantiation after the pattern was added to the store.
C12_SearchByDomain ==
    /\ last.op = "search_by_domain" =>
        /\ NoDuplicates(last.ret)
        /\ Range(last.ret) =
            {p \in StoredBefore :
                \E i \in 1..Len(p.instantiations) :
                    p.instantiations[i].domain = last.domain}
    /\ last.op = "add_instantiation" =>
        /\ Len(SearchByDomain(store, last.domain)) >= 1
        /\ \E i \in 1..Len(SearchByDomain(store, last.domain)) :
            SearchByDomain(store, last.domain)[i].id = last.id

\* C12 witness: a search returned a pattern for the domain of its second
\* instantiation and left out a stored pattern that has instantiations
C12_Witness ==
    /\ last.op = "search_by_domain"
    /\ \E p \in Range(last.ret) :
        /\ Len(p.instantiations) = 2
        /\ p.instantiations[1].domain # last.domain
    /\ \E p \in StoredBefore \ Range(last.ret) : p.instantiations # <<>>

CycleCall == last.op = "has_feature" /\ last.feature = "cycle"

\* the orders a list of n elements can be put in
Orders(n) == {f \in [1..n -> 1..n] : \A i, j \in 1..n : f[i] = f[j] => i = j}
Reordered(s, f) == [i \in 1..Len(s) |-> s[f[i]]]

\* C13: for a structure with a non-empty edge list, the cycle feature has
\* the same value for every order of the edge list and of the node list.
C13_CycleOrderInvariant ==
    (CycleCall /\ structure.relations # <<>>) =>
        \A f \in Orders(Len(structure.entities)) :
            \A g \in Orders(Len(structure.relations)) :
                CheckCycle(Structure(Reordered(structure.entities, f),
                                     Reordered(structure.relations, g)))
                    = last.ret

\* C13 witness: a cycle was found in a structure of two entities and two
\* different edges, which has four orders
C13_Witness ==
    /\ CycleCall
    /\ last.ret = TRUE
    /\ Len(structure.entities) = 2
    /\ Len(structure.relations) = 2
    /\ structure.relations[1] # structure.relations[2]

\* C15: tree is true iff the number of contains edges is the node count
\* minus 1, and linear_chain iff the number of ordered_before edges is;
\* nothing else is checked, so both are false without nodes and both are
\* true for one node without edges.
C15_TreeAndChainByEdgeCount ==
    LET nodes == Len(structure.entities)
        typed(t) == Cardinality({i \in 1..Len(structure.relations) :
                                    structure.relations[i].type = t})
    IN /\ (last.op = "has_feature" /\ last.feature = "tree") =>
            /\ last.ret <=> (typed("contains") = nodes - 1)
            /\ nodes = 0 => ~last.ret
            /\ (nodes = 1 /\ structure.relations = <<>>) => last.ret
       /\ (last.op = "has_feature" /\ last.feature = "linear_chain") =>
            /\ last.ret <=> (typed("ordered_before") = nodes - 1)
            /\ nodes = 0 => ~last.ret
            /\ (nodes = 1 /\ structure.relations = <<>>) => last.ret

\* C15 witness: tree holds for two entities with one contains edge that is a
\* self-loop, beside an edge of the other type
C15_Witness ==
    /\ last.op = "has_feature"
    /\ last.feature = "tree"
    /\ last.ret = TRUE
    /\ Len(structure.entities) = 2
    /\ Len(structure.relations) = 2
    /\ \E i \in 1..2 :
        /\ structure.relations[i].type = "contains"
        /\ structure.relations[i].source = structure.relations[i].target

\* C17: the traversal of cycle detection ends with every node entered at
\* most once, hence after at most as many calls of dfs as there are nodes,
\* and, unless a cycle was found, with every listed node entered; this on
\* disconnected graphs, self-loops, parallel edges and edges to absent ids.
C17_CycleTraversalBounded ==
    (CycleCall /\ structure.relations # <<>>) =>
        LET run == CycleRun(structure)
            listed == {structure.entities[i].id : i \in 1..Len(structure.entities)}
        IN /\ NoDuplicates(run.entered)
           /\ Range(run.entered) = run.visited
           /\ run.visited \subseteq listed \cup EdgeNodes(structure.relations)
           /\ run.found = last.ret
           /\ ~run.found => listed \subseteq run.visited

\* C17 witness: no cycle found in a graph of two listed nodes that are not
\* connected, with two parallel edges to an identifier that is not listed
C17_Witness ==
    /\ CycleCall
    /\ last.ret = FALSE
    /\ Len(structure.entities) = 2
    /\ Len(structure.relations) = 2
    /\ structure.relations[1].source = structure.relations[2].source
    /\ structure.relations[1].target = AbsentId
    /\ structure.relations[2].target = AbsentId
    /\ Len(CycleRun(structure).entered) = 3

ReadOps == {"get", "all_patterns", "match", "search_by_tag", "search_by_domain"}

C19_LoadMergesByIdentifier ==
    (last.op = "load" /\ ~last.raised) =>
        LET data == disk.data
            ids == {data[i].id : i \in 1..Len(data)}
        IN /\ \A i \in 1..Len(data) :
                (\A j \in (i + 1)..Len(data) : data[j].id # data[i].id) =>
                    StoreGet(store, data[i].id) = DictToPattern(data[i])
           /\ \A k \in StoreKeys(last.before) \ ids :
                StoreGet(store, k) = StoreGet(last.before, k)
           /\ StoreKeys(store) = StoreKeys(last.before) \cup ids
           /\ NoDuplicates([i \in 1..Len(store) |-> store[i].k])

\* C19 witness: a file of two different records of one identifier was loaded
\* into a store that held a pattern under it and a pattern under another
\* identifier; the stored pattern was replaced by the one of the last record
C19_Witness ==
    /\ last.op = "load"
    /\ ~last.raised
    /\ Len(disk.data) = 2
    /\ disk.data[1].id = disk.data[2].id
    /\ disk.data[1] # disk.data[2]
    /\ disk.data[1].id \in StoreKeys(last.before)
    /\ StoreKeys(last.before) \ {disk.data[1].id} # {}
    /\ StoreGet(store, disk.data[1].id) # StoreGet(last.before, disk.data[1].id)
    /\ StoreGet(store, disk.data[1].id) = DictToPattern(disk.data[2])

\* the entries of the operation map of the call whose abstract label is a
Preimages(a) ==
    {i \in 1..Len(last.mapping.operation_map) :
        last.mapping.operation_map[i].v = a}

StepsOfCall == last.solution.transformation.steps

\* C14: for an entry (c -> a) of the operation map with no other concrete
\* label mapped to a, the reverse dictionary maps a to c, and instantiate
\* gives a step of abstract operation a the concrete operation c.
C14_UnambiguousEntryRoundTrip ==
    /\ last.op = "inverse_operation_map" =>
        \A i \in 1..Len(last.mapping.operation_map) :
            LET e == last.mapping.operation_map[i]
            IN Preimages(e.v) = {i} =>
                \E j \in 1..Len(last.ret) :
                    /\ last.ret[j] = [k |-> e.v, v |-> e.k]
                    /\ \A h \in 1..Len(last.ret) : last.ret[h].k = e.v => h = j
    /\ last.op = "instantiate" =>
        \A i \in 1..Len(last.mapping.operation_map) :
            LET e == last.mapping.operation_map[i]
            IN Preimages(e.v) = {i} =>
                \A n \in 1..Len(StepsOfCall) :
                    Operation[StepsOfCall[n].operation] = e.v =>
                        last.ret[n].operation = e.k

\* C14 witness: instantiate with a map of two entries of different abstract
\* labels, where a step has the abstract operation of the second entry
C14_Witness ==
    /\ last.op = "instantiate"
    /\ Len(last.mapping.operation_map) = 2
    /\ last.mapping.operation_map[1].v # last.mapping.operation_map[2].v
    /\ \E n \in 1..Len(StepsOfCall) :
        /\ Operation[StepsOfCall[n].operation] = last.mapping.operation_map[2].v
        /\ last.ret[n].operation = last.mapping.operation_map[2].k

\* C20: instantiate returns one description for each step, in the order of
\* the steps, with the abstract label of the step, with its args, binds and
\* rationale as they are, and with the concrete label of the last entry of
\* the operation map whose abstract label is that of the step, or the
\* abstract label where the map has no such entry.
C20_InstantiateStepByStep ==
    last.op = "instantiate" =>
        /\ Len(last.ret) = Len(StepsOfCall)
        /\ \A n \in 1..Len(StepsOfCall) :
            LET step == StepsOfCall[n]
                a == Operation[step.operation]
                pre == Preimages(a)
            IN /\ last.ret[n].abstract_operation = a
               /\ last.ret[n].args = step.args
               /\ last.ret[n].binds = step.binds
               /\ last.ret[n].rationale = step.rationale
               /\ last.ret[n].operation =
                    IF pre = {} THEN a
                    ELSE last.mapping.operation_map[
                            CHOOSE i \in pre : \A j \in pre : j <= i].k

\* C20 witness: instantiate of two different steps with a map whose two
\* entries have the abstract label of the first step; the second step has
\* a label that the map does not have
C20_Witness ==
    /\ last.op = "instantiate"
    /\ Len(StepsOfCall) = 2
    /\ Len(last.mapping.operation_map) = 2
    /\ Preimages(Operation[StepsOfCall[1].operation]) = {1, 2}
    /\ last.ret[1].operation = last.mapping.operation_map[2].k
    /\ last.ret[2].operation = Operation[StepsOfCall[2].operation]
    /\ last.ret[2].args # last.ret[1].args

\* the identifiers of a store in its iteration order
KeyOrder(s) == [i \in 1..Len(s) |-> s[i].k]

\* C21: results of match with equal scores are in the iteration order of
\* the store, and all_patterns returns the patterns in that order; the
\* order is that of first insertion: add of a stored identifier keeps its
\* place, add of another identifier puts it last, and remove keeps the
\* order of the rest, so that remove and add again moves it to the end.
C21_TiesInInsertionOrder ==
    /\ MatchCall =>
        \A i, j \in 1..Len(last.ret) :
            (i < j /\ RatEq(last.ret[i].score, last.ret[j].score)) =>
                StoreIndex(last.before, last.ret[i].pattern.id)
                    < StoreIndex(last.before, last.ret[j].pattern.id)
    /\ last.op = "all_patterns" =>
        /\ Len(last.ret) = Len(last.before)
        /\ \A i \in 1..Len(last.ret) : last.ret[i] = last.before[i].v
    /\ last.op = "add" =>
        KeyOrder(store) =
            IF last.pattern.id \in StoreKeys(last.before)
            THEN KeyOrder(last.before)
            ELSE Append(KeyOrder(last.before), last.pattern.id)
    /\ last.op = "remove" =>
        LET Others(k) == k # last.id
        IN KeyOrder(store) = SelectSeq(KeyOrder(last.before), Others)

\* C21 witness: match returned two results of one score for two different
\* patterns with preconditions, from a store that iterates b before a
C21_Witness ==
    /\ MatchCall
    /\ KeyOrder(last.before) = <<"b", "a">>
    /\ Len(last.ret) = 2
    /\ RatEq(last.ret[1].score, last.ret[2].score)
    /\ last.ret[1].pattern.id = "b"
    /\ HasPreconditions(last.ret[1].pattern)
    /\ last.ret[1].pattern.solution # last.ret[2].pattern.solution

\* C22: every key of the store is the identifier of the pattern under it
\* and no key occurs twice; the store is empty at first, add puts one
\* identifier among the keys, remove takes one out, and a load that did
\* not raise puts the identifiers of the file among them: the size of the
\* store is the number of identifiers added or loaded and not removed since.
C22_KeysAreLiveIdentifiers ==
    /\ \A i \in 1..Len(store) : store[i].k = store[i].v.id
    /\ Len(store) = Cardinality(StoreKeys(store))
    /\ last.op = "add" =>
        StoreKeys(store) = StoreKeys(last.before) \cup {last.pattern.id}
    /\ last.op = "remove" =>
        StoreKeys(store) = StoreKeys(last.before) \ {last.id}
    /\ (last.op = "load" /\ ~last.raised) =>
        StoreKeys(store) = StoreKeys(last.before)
            \cup {disk.data[i].id : i \in 1..Len(disk.data)}

\* C22 witness: a load of two records of different identifiers, one of them
\* stored before, made a store of one pattern a store of two
C22_Witness ==
    /\ last.op = "load"
    /\ ~last.raised
    /\ Len(disk.data) = 2
    /\ disk.data[1].id # disk.data[2].id
    /\ Len(last.before) = 1
    /\ StoreKeys(last.before) \subseteq {disk.data[1].id, disk.data[2].id}
    /\ Len(store) = 2

\* the results of a result list that are for the pattern
ResultsIn(results, pattern) ==
    {i \in 1..Len(results) : results[i].pattern = pattern}

\* C23: for a pattern with preconditions, solution.matches(problem) is true
\* iff the score the store gives the pattern for the problem is 1.0: every
\* result for it is exact iff matches holds, and it has a result at every
\* threshold up to 1.0 when matches holds. For a pattern without
\* preconditions matches is true and the result of the store has score 0.1,
\* which is not exact.
C23_MatchesIffExact ==
    /\ MatchCall =>
        \A e \in Entries :
            LET holds == SolutionMatches(e.v.solution, last.problem)
                res == ResultsIn(last.ret, e.v)
            IN IF HasPreconditions(e.v)
               THEN /\ \A i \in res : IsExact(last.ret[i]) <=> holds
                    /\ (holds /\ RatGeq(Rat(1, 1), last.threshold)) => res # {}
               ELSE /\ holds
                    /\ res # {}
                    /\ \A i \in res :
                        RatEq(last.ret[i].score, BypassScore) /\ ~IsExact(last.ret[i])
    /\ last.op = "matches" =>
        LET results == StoreMatch(last.before, last.problem, Rat(1, 1))
            res == ResultsIn(results, last.pattern)
        IN IF HasPreconditions(last.pattern)
           THEN last.ret <=> (\E i \in res : IsExact(results[i]))
           ELSE last.ret /\ res # {} /\ \A i \in res : ~IsExact(results[i])

\* C23 witness: matches is true for a pattern with two preconditions, one
\* of them a feature of the structure and one a tag of the problem
C23_Witness ==
    /\ last.op = "matches"
    /\ last.ret = TRUE
    /\ Cardinality(Range(last.pattern.solution.preconditions)) = 2
    /\ Range(last.pattern.solution.preconditions) \cap Range(last.problem.tags) # {}
    /\ ~(Range(last.pattern.solution.preconditions) \subseteq Range(last.problem.tags))
    /\ \E i \in 1..Len(StoreMatch(last.before, last.problem, Rat(1, 1))) :
        /\ StoreMatch(last.before, last.problem, Rat(1, 1))[i].pattern = last.pattern
        /\ IsExact(StoreMatch(last.before, last.problem, Rat(1, 1))[i])

====
